---- MODULE Spec2Model ----
(***************************************************************************)
(* Event planner backend: the request handlers of controllers.go over the  *)
(* relational store (events, tasks, event_attendees, users).               *)
(*                                                                         *)
(* Every handler is a sequence of store statements.  One action of the     *)
(* model is one store statement of one request together with the local     *)
(* computation that follows it up to the next statement (or the response). *)
(* Requests run on the processes Procs.  Spec interleaves the statements   *)
(* of different requests freely (gin serves each request on its own        *)
(* goroutine); SpecSeq starts a request only when no other is in flight.   *)
(* SpecSearch serves searches, one after the other, over the stores that    *)
(* requests leave behind, with events of several dates and their tasks.    *)
(*                                                                         *)
(* Strings that the code parses or normalises are sequences of one-letter  *)
(* strings, so that parsing and normalising are computed, not assumed.     *)
(***************************************************************************)
EXTENDS Integers, Sequences, FiniteSets, TLC

\* ------------------------------------------------------------------ bounds
NumUsers  == 2      \* registered users
NumProcs  == 2      \* requests in flight at once
MaxEvents == 2      \* event identifiers handed out
MaxTasks  == 1      \* task identifiers handed out
MaxAtts   == 3      \* attendance identifiers handed out
MaxCalls  == 3      \* requests begun in a concurrent run
MaxFound  == 2      \* task rows of a store that is searched

Procs == 1..NumProcs

\* The users table.  Signup is the only writer and nothing deletes a user;
\* the model starts with the users registered.
Users == 1..NumUsers

\* getUserIDFromContext yields (0, false) when the identity gate set no user.
NoUser == 0

\* ------------------------------------------------------------- strings
Digit(c) ==
    CASE c = "0" -> 0 [] c = "1" -> 1 [] c = "2" -> 2 [] c = "3" -> 3
      [] c = "4" -> 4 [] c = "5" -> 5 [] c = "6" -> 6 [] c = "7" -> 7
      [] c = "8" -> 8 [] c = "9" -> 9 [] OTHER -> -1

RECURSIVE Digits(_)
\* the value of a sequence of decimal digits, -1 when some letter is no digit
Digits(s) ==
    IF s = <<>> THEN 0
    ELSE LET d == Digit(s[Len(s)])
             r == Digits(SubSeq(s, 1, Len(s) - 1))
         IN  IF d < 0 \/ r < 0 THEN -1 ELSE 10 * r + d

\* strconv.ParseUint(s, 10, 64): [ok, val]
ParseUint(s) ==
    IF s # <<>> /\ Digits(s) >= 0
    THEN [ok |-> TRUE, val |-> Digits(s)]
    ELSE [ok |-> FALSE, val |-> 0]

\* strconv.Atoi(s): an optional sign, then digits
Atoi(s) ==
    IF s # <<>> /\ s[1] \in {"-", "+"}
    THEN LET r == ParseUint(Tail(s))
         IN  [ok |-> r.ok, val |-> IF s[1] = "-" THEN 0 - r.val ELSE r.val]
    ELSE ParseUint(s)

ToLowerChar(c) ==
    CASE c = "G" -> "g" [] c = "O" -> "o" [] c = "I" -> "i" [] c = "N" -> "n"
      [] c = "M" -> "m" [] c = "A" -> "a" [] c = "Y" -> "y" [] c = "B" -> "b"
      [] c = "E" -> "e" [] c = "T" -> "t" [] c = "W" -> "w" [] c = "H" -> "h"
      [] c = "F" -> "f" [] c = "V" -> "v" [] c = "U" -> "u"
      [] OTHER -> c

ToUpperChar(c) ==
    CASE c = "g" -> "G" [] c = "o" -> "O" [] c = "i" -> "I" [] c = "n" -> "N"
      [] c = "m" -> "M" [] c = "a" -> "A" [] c = "y" -> "Y" [] c = "b" -> "B"
      [] c = "e" -> "E" [] c = "t" -> "T" [] c = "w" -> "W" [] c = "h" -> "H"
      [] c = "f" -> "F" [] c = "v" -> "V" [] c = "u" -> "U"
      [] OTHER -> c

\* strings.ToLower
ToLower(s) == [i \in 1..Len(s) |-> ToLowerChar(s[i])]

RECURSIVE TrimLeft(_)
TrimLeft(s) == IF s # <<>> /\ s[1] = " " THEN TrimLeft(Tail(s)) ELSE s

RECURSIVE TrimRight(_)
TrimRight(s) ==
    IF s # <<>> /\ s[Len(s)] = " " THEN TrimRight(SubSeq(s, 1, Len(s) - 1)) ELSE s

\* strings.TrimSpace
TrimSpace(s) == TrimRight(TrimLeft(s))

\* strings.Title: the first letter of every word in upper case
Title(s) ==
    [i \in 1..Len(s) |-> IF i = 1 \/ s[i - 1] = " " THEN ToUpperChar(s[i]) ELSE s[i]]

Going    == <<"G", "o", "i", "n", "g">>
Maybe    == <<"M", "a", "y", "b", "e">>
NotGoing == <<"N", "o", "t", " ", "G", "o", "i", "n", "g">>

\* the normalisation of SetAttendance
Normalize(s) == Title(ToLower(TrimSpace(s)))

\* the status column for a normalised status that passed validation
StatusName(n) ==
    CASE n = Going -> "Going" [] n = Maybe -> "Maybe" [] n = NotGoing -> "Not Going"
      [] OTHER -> ""

DigitChar(i) ==
    CASE i = 0 -> "0" [] i = 1 -> "1" [] i = 2 -> "2" [] i = 3 -> "3" [] i = 4 -> "4"
      [] i = 5 -> "5" [] i = 6 -> "6" [] i = 7 -> "7" [] i = 8 -> "8" [] OTHER -> "9"

\* ------------------------------------------------------------- inputs
\* the caller identity the gate hands to a handler: a registered user or none
Actors == {NoUser} \cup Users

\* the :id path parameter: every identifier the store can hand out, a word
\* that is no number, and a negative number
IdParams == {<<DigitChar(i)>> : i \in 1..MaxEvents} \cup {<<"x">>, <<"-", "1">>}

\* InviteRequest.UserID: 0 is the absent field, NumUsers + 1 no registered user
InviteTargets == 0..(NumUsers + 1)

\* AttendanceRequest.Status as sent
StatusInputs ==
    { <<" ", "G", "O", "I", "N", "G", " ">>,
      <<"n", "o", "t", " ", "g", "o", "i", "n", "g">>,
      <<"w", "h", "a", "t">>,
      <<" ">>,
      <<>> }

Offsite   == <<"O", "f", "f", "s", "i", "t", "e">>
BookVenue == <<"B", "o", "o", "k", " ", "v", "e", "n", "u", "e">>

\* CreateTaskRequest.Title as sent; the description is left out
TaskTitles == {<<>>, BookVenue}

\* CreateEventRequest.Date as sent: an RFC3339 instant, a calendar date, some
\* other text, or nothing
DateInputs ==
    { [kind |-> "ymd", day |-> 1, sec |-> 0],
      [kind |-> "junk", day |-> 0, sec |-> 0],
      [kind |-> "empty", day |-> 0, sec |-> 0] }

\* CreateEventRequest as sent; the description is left out
CreateEventBodies == {[title |-> t, date |-> d] : t \in {<<>>, Offsite}, d \in DateInputs}

\* time.Parse(time.RFC3339, s), then time.Parse("2006-01-02", s): seconds
ParseDate(d) ==
    CASE d.kind = "rfc3339" -> [ok |-> TRUE, val |-> d.day * 86400 + d.sec]
      [] d.kind = "ymd"     -> [ok |-> TRUE, val |-> d.day * 86400]
      [] OTHER              -> [ok |-> FALSE, val |-> 0]

\* ------------------------------------------------------------- state
VARIABLES
    events,       \* rows of events: [id, organizer, date, title, description]
    tasks,        \* rows of tasks: [id, event, title, description]
    attendees,    \* rows of event_attendees: [id, event, user, role, status]
    nextEventId,  \* the next value of each table's identifier sequence
    nextTaskId,
    nextAttId,
    calls,        \* per process: the request it serves and its locals
    resp,         \* the response written by the step just taken: [op, code, msg]
    payload,      \* the rows that response carries (the read operations)
    asked,        \* the role and type of the search that response answers
    ncalls        \* the requests begun (counted by Spec alone)

vars ==
    <<events, tasks, attendees, nextEventId, nextTaskId, nextAttId, calls, resp, payload, asked, ncalls>>

\* the zero value of EventAttendee
NoAtt == [id |-> 0, event |-> 0, user |-> 0, role |-> "", status |-> ""]

Idle ==
    [op |-> "none", actor |-> NoUser, eid |-> 0, target |-> 0, status |-> "",
     date |-> 0, title |-> <<>>, bodyOk |-> TRUE, org |-> 0, att |-> NoAtt,
     payload |-> <<>>, pc |-> "idle", code |-> "", msg |-> "",
     req |-> [keyword |-> <<>>, start |-> 0, end |-> 0, role |-> "", type |-> "",
              endDate |-> [kind |-> "empty", day |-> 0, sec |-> 0]],
     found |-> <<>>, skipped |-> {}]

\* no response: the step just taken answered no request
NoResp == [op |-> "none", code |-> "", msg |-> ""]

\* a response that carries no rows
NoPayload == <<>>

\* a response to a request that binds no SearchRequest
NoAsked == [role |-> "", type |-> ""]

\* c.JSON(code, ...) and return
Respond(c, code, msg) == [c EXCEPT !.pc = "done", !.code = code, !.msg = msg]

\* jsonError(c, code, msg) and return
jsonError(c, code, msg) == Respond(c, code, msg)

Init ==
    /\ events = {}
    /\ tasks = {}
    /\ attendees = {}
    /\ nextEventId = 1
    /\ nextTaskId = 1
    /\ nextAttId = 1
    /\ calls = [p \in Procs |-> Idle]
    /\ resp = NoResp
    /\ payload = NoPayload
    /\ asked = NoAsked
    /\ ncalls = 0

\* ------------------------------------------------------------- store
EventIds == {e.id : e \in events}

\* DB.First(&ev, id)
EventById(id) == CHOOSE e \in events : e.id = id

\* WHERE event_id = e AND user_id = u, over the rows given
PairRows(rows, e, u) == {a \in rows : a.event = e /\ a.user = u}

\* AttRows matching on the event alone
AttRows_EventOnly(e, u) == {a \in attendees : a.event = e}

\* the rows of event_attendees for (event, user)
AttRows(e, u) == PairRows(attendees, e, u)

\* DB.Where("event_id = ? AND user_id = ?", e, u).First(&att): First orders by
\* the primary key
FirstAtt(e, u) == CHOOSE a \in AttRows(e, u) : \A b \in AttRows(e, u) : a.id <= b.id

\* a process may take a new request
Free(p) == calls[p].pc = "idle"

\* process p goes on as c; when c is answered the handler has returned: the
\* process is free again and the step's response is c.  A response is on
\* its way to the client until Deliver, and the steps of the model wait for
\* that: it fixes no order among the store statements.
Finish(p, c) ==
    /\ resp = NoResp
    /\ calls' = [calls EXCEPT ![p] = IF c.pc = "done" THEN Idle ELSE c]
    /\ resp' = IF c.pc = "done" THEN [op |-> c.op, code |-> c.code, msg |-> c.msg]
               ELSE NoResp
    /\ payload' = IF c.pc = "done" /\ c.code = "OK" THEN c.payload ELSE NoPayload
    /\ asked' = IF c.pc = "done" THEN [role |-> c.req.role, type |-> c.req.type]
                ELSE NoAsked

\* the requests in flight among the operations ops
InFlight(ops) == Cardinality({q \in Procs : calls[q].op \in ops /\ ~Free(q)})

AttCreators == {"CreateEvent", "InviteUser", "SetAttendance"}

\* identifiers are left for one more request that may insert an attendance row
AttIdsLeft == nextAttId + InFlight(AttCreators) <= MaxAtts

\* ------------------------------------------------------------- CreateEvent
\* authentication, binding and date parsing: no store statement
CreateEventStart(actor, body) ==
    LET c == [Idle EXCEPT !.op = "CreateEvent", !.actor = actor]
    IN  IF actor = NoUser THEN jsonError(c, "Unauthorized", "unauthorized")
        ELSE IF body.title = <<>> \/ body.date.kind = "empty"
        THEN jsonError(c, "BadRequest", "invalid request")
        ELSE IF ~ParseDate(body.date).ok
        THEN jsonError(c, "BadRequest", "invalid date format")
        ELSE [c EXCEPT !.pc = "ce_create", !.date = ParseDate(body.date).val,
                       !.title = body.title]

CreateEvent_Begin(p) ==
    /\ Free(p)
    /\ nextEventId + InFlight({"CreateEvent"}) <= MaxEvents
    /\ AttIdsLeft
    /\ \E actor \in Actors, body \in CreateEventBodies :
           Finish(p, CreateEventStart(actor, body))
    /\ UNCHANGED <<events, tasks, attendees, nextEventId, nextTaskId, nextAttId>>

\* DB.Create(&ev)
CreateEvent_Create(p) ==
    LET c == calls[p]
    IN  /\ c.pc = "ce_create"
        /\ \E fail \in BOOLEAN :
              IF fail
              THEN /\ Finish(p,
                                  jsonError(c, "InternalServerError", "could not create event"))
                   /\ UNCHANGED <<events, nextEventId>>
              ELSE /\ events' = events \cup
                        {[id |-> nextEventId, organizer |-> c.actor, date |-> c.date,
                          title |-> c.title, description |-> <<>>]}
                   /\ nextEventId' = nextEventId + 1
                   /\ Finish(p,
                                  [c EXCEPT !.eid = nextEventId, !.pc = "ce_org_find"])
        /\ UNCHANGED <<tasks, attendees, nextTaskId, nextAttId>>

\* FirstOrCreate(&org), its SELECT: a row found, or an error, ends the call;
\* the error is dropped and the response is 201 either way
CreateEvent_OrgFind(p) ==
    LET c == calls[p]
    IN  /\ c.pc = "ce_org_find"
        /\ \E fail \in BOOLEAN :
              IF fail \/ AttRows(c.eid, c.actor) # {}
              THEN Finish(p, Respond(c, "Created", "event"))
              ELSE Finish(p, [c EXCEPT !.pc = "ce_org_create"])
        /\ UNCHANGED <<events, tasks, attendees, nextEventId, nextTaskId, nextAttId>>

\* FirstOrCreate(&org), its INSERT; the error is dropped
CreateEvent_OrgCreate(p) ==
    LET c == calls[p]
    IN  /\ c.pc = "ce_org_create"
        /\ \E fail \in BOOLEAN :
              IF fail
              THEN UNCHANGED <<attendees, nextAttId>>
              ELSE /\ attendees' = attendees \cup
                        {[id |-> nextAttId, event |-> c.eid, user |-> c.actor,
                          role |-> "organizer", status |-> ""]}
                   /\ nextAttId' = nextAttId + 1
        /\ Finish(p, Respond(c, "Created", "event"))
        /\ UNCHANGED <<events, tasks, nextEventId, nextTaskId>>

\* ------------------------------------------------------------- DeleteEvent
DeleteEventStart(actor, param) ==
    LET c == [Idle EXCEPT !.op = "DeleteEvent", !.actor = actor]
        id == Atoi(param)
    IN  IF actor = NoUser THEN jsonError(c, "Unauthorized", "unauthorized")
        ELSE IF param = <<>> THEN jsonError(c, "BadRequest", "missing event id")
        ELSE IF ~id.ok THEN jsonError(c, "BadRequest", "invalid event id")
        ELSE [c EXCEPT !.pc = "de_find", !.eid = id.val]

DeleteEvent_Begin(p) ==
    /\ Free(p)
    /\ \E actor \in Actors, param \in IdParams :
           Finish(p, DeleteEventStart(actor, param))
    /\ UNCHANGED <<events, tasks, attendees, nextEventId, nextTaskId, nextAttId>>

\* CanDeleteEvent letting every authenticated user delete
CanDeleteEvent_Anyone(actor, ev) == actor # NoUser

\* CanDeleteEvent: only the organizer
CanDeleteEvent(actor, ev) == ev.organizer = actor

\* DB.First(&ev, id) and the organizer check
DeleteEvent_Find(p) ==
    LET c == calls[p]
    IN  /\ c.pc = "de_find"
        /\ \E fail \in BOOLEAN :
              Finish(p,
                 IF fail THEN jsonError(c, "InternalServerError", "db error")
                 ELSE IF c.eid \notin EventIds
                 THEN jsonError(c, "NotFound", "event not found")
                 ELSE IF ~CanDeleteEvent(c.actor, EventById(c.eid))
                 THEN jsonError(c, "Forbidden", "only organizer can delete the event")
                 ELSE [c EXCEPT !.pc = "de_tx"])
        /\ UNCHANGED <<events, tasks, attendees, nextEventId, nextTaskId, nextAttId>>

\* TxDeletes that forgets the tasks
TxDeletes_NoTasks(s, e, failAt) ==
    LET s1 == IF failAt = 1 THEN s
              ELSE [s EXCEPT !.attendees = {a \in @ : a.event # e}]
        s3 == IF failAt \in {1, 2, 3} THEN s1
              ELSE [s1 EXCEPT !.events = {x \in @ : x.id # e}]
    IN  s3

\* the three deletes of the transaction, in order, up to (not including) the
\* statement that fails; s is [events, tasks, attendees]
TxDeletes(s, e, failAt) ==
    LET s1 == IF failAt = 1 THEN s
              ELSE [s EXCEPT !.attendees = {a \in @ : a.event # e}]
        s2 == IF failAt \in {1, 2} THEN s1
              ELSE [s1 EXCEPT !.tasks = {t \in @ : t.event # e}]
        s3 == IF failAt \in {1, 2, 3} THEN s2
              ELSE [s2 EXCEPT !.events = {x \in @ : x.id # e}]
    IN  s3

\* the deletes run one by one on the store, outside a transaction: what ran
\* before the failing statement stays
Transaction_NoRollback(s, e, failAt) ==
    LET s1 == IF failAt = 1 THEN s
              ELSE [s EXCEPT !.attendees = {a \in @ : a.event # e}]
        s2 == IF failAt \in {1, 2} THEN s1
              ELSE [s1 EXCEPT !.tasks = {t \in @ : t.event # e}]
        s3 == IF failAt \in {1, 2, 3} THEN s2
              ELSE [s2 EXCEPT !.events = {x \in @ : x.id # e}]
    IN  s3

\* DB.Transaction(fn): fn's statements take effect together when fn returns
\* nil, and not at all when it returns an error; failAt = 0 is no error
Transaction(s, e, failAt) == IF failAt = 0 THEN TxDeletes(s, e, 0) ELSE s

DeleteEvent_Tx(p) ==
    LET c == calls[p]
        s == [events |-> events, tasks |-> tasks, attendees |-> attendees]
    IN  /\ c.pc = "de_tx"
        /\ \E failAt \in 0..3 :
              /\ events' = Transaction(s, c.eid, failAt).events
              /\ tasks' = Transaction(s, c.eid, failAt).tasks
              /\ attendees' = Transaction(s, c.eid, failAt).attendees
              /\ Finish(p,
                    IF failAt = 0 THEN Respond(c, "OK", "event deleted")
                    ELSE jsonError(c, "InternalServerError", "delete failed"))
        /\ UNCHANGED <<nextEventId, nextTaskId, nextAttId>>

\* ------------------------------------------------------------- InviteUser
InviteUserStart(actor, param, target) ==
    LET c == [Idle EXCEPT !.op = "InviteUser", !.actor = actor, !.target = target]
        id == ParseUint(param)
    IN  IF actor = NoUser THEN jsonError(c, "Unauthorized", "unauthorized")
        ELSE IF ~id.ok THEN jsonError(c, "BadRequest", "invalid event id")
        ELSE IF target = 0 THEN jsonError(c, "BadRequest", "invalid body")
        ELSE [c EXCEPT !.pc = "iu_event", !.eid = id.val]

InviteUser_Begin(p) ==
    /\ Free(p)
    /\ AttIdsLeft
    /\ \E actor \in Actors, param \in IdParams, target \in InviteTargets :
           Finish(p, InviteUserStart(actor, param, target))
    /\ UNCHANGED <<events, tasks, attendees, nextEventId, nextTaskId, nextAttId>>

\* CanInvite: only the organizer
CanInvite(actor, ev) == ev.organizer = actor

\* DB.First(&ev, eventID) and the organizer check
InviteUser_Event(p) ==
    LET c == calls[p]
    IN  /\ c.pc = "iu_event"
        /\ \E fail \in BOOLEAN :
              Finish(p,
                 IF fail THEN jsonError(c, "InternalServerError", "db error")
                 ELSE IF c.eid \notin EventIds
                 THEN jsonError(c, "NotFound", "event not found")
                 ELSE IF ~CanInvite(c.actor, EventById(c.eid))
                 THEN jsonError(c, "Forbidden", "only organizer can invite others")
                 ELSE [c EXCEPT !.pc = "iu_user", !.org = EventById(c.eid).organizer])
        /\ UNCHANGED <<events, tasks, attendees, nextEventId, nextTaskId, nextAttId>>

\* IsOrganizer with the check left out
IsOrganizer_Never(invitee, organizer) == FALSE

\* invitee.ID == ev.OrganizerID
IsOrganizer(invitee, organizer) == invitee = organizer

\* DB.First(&invitee, body.UserID) and the organizer-as-attendee check
InviteUser_User(p) ==
    LET c == calls[p]
    IN  /\ c.pc = "iu_user"
        /\ \E fail \in BOOLEAN :
              Finish(p,
                 IF fail THEN jsonError(c, "InternalServerError", "db error")
                 ELSE IF c.target \notin Users
                 THEN jsonError(c, "NotFound", "invited user not found")
                 ELSE IF IsOrganizer(c.target, c.org)
                 THEN jsonError(c, "BadRequest", "user is already organizer")
                 ELSE [c EXCEPT !.pc = "iu_find"])
        /\ UNCHANGED <<events, tasks, attendees, nextEventId, nextTaskId, nextAttId>>

\* InviteExisting looking only for rows that still await an answer
InviteExisting_PendingOnly(e, u) == {a \in AttRows(e, u) : a.status = ""}

\* InviteExisting with the lookup left out
InviteExisting_None(e, u) == {}

\* the rows the idempotency lookup of InviteUser matches
InviteExisting(e, u) == AttRows(e, u)

\* DB.Where("event_id = ? AND user_id = ?", ...).First(&existing)
InviteUser_Find(p) ==
    LET c == calls[p]
    IN  /\ c.pc = "iu_find"
        /\ \E fail \in BOOLEAN :
              Finish(p,
                 IF fail THEN jsonError(c, "InternalServerError", "db error")
                 ELSE IF InviteExisting(c.eid, c.target) # {}
                 THEN Respond(c, "OK", "user already invited or participant")
                 ELSE [c EXCEPT !.pc = "iu_create"])
        /\ UNCHANGED <<events, tasks, attendees, nextEventId, nextTaskId, nextAttId>>

\* InsertAtt over a unique index on (event_id, user_id) that skips a duplicate
InsertAtt_Unique(rows, row) ==
    IF \E r \in rows : r.event = row.event /\ r.user = row.user THEN rows
    ELSE rows \cup {row}

\* DB.Create(&att) on event_attendees: the table has no unique index on
\* (event_id, user_id), so the insert adds the row whatever rows exist
InsertAtt(rows, row) == rows \cup {row}

\* DB.Create(&att)
InviteUser_Create(p) ==
    LET c == calls[p]
        att == [id |-> nextAttId, event |-> c.eid, user |-> c.target,
                role |-> "attendee", status |-> ""]
    IN  /\ c.pc = "iu_create"
        /\ \E fail \in BOOLEAN :
              IF fail
              THEN /\ Finish(p,
                          jsonError(c, "InternalServerError", "could not create invitation"))
                   /\ UNCHANGED <<attendees, nextAttId>>
              ELSE /\ attendees' = InsertAtt(attendees, att)
                   /\ nextAttId' = nextAttId + 1
                   /\ Finish(p, Respond(c, "OK", "user invited"))
        /\ UNCHANGED <<events, tasks, nextEventId, nextTaskId>>

\* ------------------------------------------------------------- SetAttendance
ValidStatus(n) == n = Going \/ n = Maybe \/ n = NotGoing

SetAttendanceStart(actor, param, raw) ==
    LET c == [Idle EXCEPT !.op = "SetAttendance", !.actor = actor]
        id == ParseUint(param)
        normalized == Normalize(raw)
    IN  IF actor = NoUser THEN jsonError(c, "Unauthorized", "unauthorized")
        ELSE IF ~id.ok THEN jsonError(c, "BadRequest", "invalid event id")
        ELSE IF raw = <<>> THEN jsonError(c, "BadRequest", "invalid body")
        ELSE IF ~ValidStatus(normalized)
        THEN jsonError(c, "BadRequest", "status must be one of: Going, Maybe, Not Going")
        ELSE [c EXCEPT !.pc = "sa_event", !.eid = id.val, !.status = StatusName(normalized)]

SetAttendance_Begin(p) ==
    /\ Free(p)
    /\ AttIdsLeft
    /\ \E actor \in Actors, param \in IdParams, raw \in StatusInputs :
           Finish(p, SetAttendanceStart(actor, param, raw))
    /\ UNCHANGED <<events, tasks, attendees, nextEventId, nextTaskId, nextAttId>>

\* DB.First(&ev, eventID)
SetAttendance_Event(p) ==
    LET c == calls[p]
    IN  /\ c.pc = "sa_event"
        /\ \E fail \in BOOLEAN :
              Finish(p,
                 IF fail THEN jsonError(c, "InternalServerError", "db error")
                 ELSE IF c.eid \notin EventIds
                 THEN jsonError(c, "NotFound", "event not found")
                 ELSE [c EXCEPT !.pc = "sa_find"])
        /\ UNCHANGED <<events, tasks, attendees, nextEventId, nextTaskId, nextAttId>>

\* DB.Where("event_id = ? AND user_id = ?", eventID, userID).First(&att)
SetAttendance_Find(p) ==
    LET c == calls[p]
    IN  /\ c.pc = "sa_find"
        /\ \E fail \in BOOLEAN :
              Finish(p,
                 IF fail THEN jsonError(c, "InternalServerError", "db error")
                 ELSE IF AttRows(c.eid, c.actor) = {}
                 THEN [c EXCEPT !.pc = "sa_create"]
                 ELSE [c EXCEPT !.pc = "sa_save", !.att = FirstAtt(c.eid, c.actor)])
        /\ UNCHANGED <<events, tasks, attendees, nextEventId, nextTaskId, nextAttId>>

\* DB.Create(&att), the self-RSVP row
SetAttendance_Create(p) ==
    LET c == calls[p]
        att == [id |-> nextAttId, event |-> c.eid, user |-> c.actor,
                role |-> "attendee", status |-> c.status]
    IN  /\ c.pc = "sa_create"
        /\ \E fail \in BOOLEAN :
              IF fail
              THEN /\ Finish(p,
                          jsonError(c, "InternalServerError", "could not set attendance"))
                   /\ UNCHANGED <<attendees, nextAttId>>
              ELSE /\ attendees' = InsertAtt(attendees, att)
                   /\ nextAttId' = nextAttId + 1
                   /\ Finish(p,
                          Respond([c EXCEPT !.att = att], "OK", "attendance"))
        /\ UNCHANGED <<events, tasks, nextEventId, nextTaskId>>

\* Save that inserts the changed row beside the old one
Save_Append(rows, att, upsert) == rows \cup {att}

\* DB.Save(&att): UPDATE of every column WHERE id = att.ID; when the UPDATE
\* matches no row, gorm either stops there or inserts att under its old
\* identifier, depending on its version (upsert)
Save(rows, att, upsert) ==
    IF \E a \in rows : a.id = att.id
    THEN {a \in rows : a.id # att.id} \cup {att}
    ELSE IF upsert THEN rows \cup {att} ELSE rows

\* att.Status = normalized; DB.Save(&att)
SetAttendance_Save(p) ==
    LET c == calls[p]
        att == [c.att EXCEPT !.status = c.status]
    IN  /\ c.pc = "sa_save"
        /\ \E fail \in BOOLEAN, upsert \in BOOLEAN :
              IF fail
              THEN /\ Finish(p,
                          jsonError([c EXCEPT !.att = att], "InternalServerError",
                                    "could not update status"))
                   /\ UNCHANGED attendees
              ELSE /\ attendees' = Save(attendees, att, upsert)
                   /\ Finish(p,
                          Respond([c EXCEPT !.att = att], "OK", "attendance"))
        /\ UNCHANGED <<events, tasks, nextEventId, nextTaskId, nextAttId>>

\* ------------------------------------------------------------- CreateTask
CreateTaskStart(actor, param, title) ==
    LET c == [Idle EXCEPT !.op = "CreateTask", !.actor = actor, !.title = title,
                          !.bodyOk = (title # <<>>)]
        id == ParseUint(param)
    IN  IF actor = NoUser THEN jsonError(c, "Unauthorized", "unauthorized")
        ELSE IF ~id.ok THEN jsonError(c, "BadRequest", "invalid event id")
        ELSE [c EXCEPT !.pc = "ct_event", !.eid = id.val]

CreateTask_Begin(p) ==
    /\ Free(p)
    /\ nextTaskId + InFlight({"CreateTask"}) <= MaxTasks
    /\ \E actor \in Actors, param \in IdParams, title \in TaskTitles :
           Finish(p, CreateTaskStart(actor, param, title))
    /\ UNCHANGED <<events, tasks, attendees, nextEventId, nextTaskId, nextAttId>>

\* CanCreateTask: only the organizer
CanCreateTask(actor, ev) == ev.organizer = actor

\* DB.First(&ev, eventID), the organizer check, then the body
CreateTask_Event(p) ==
    LET c == calls[p]
    IN  /\ c.pc = "ct_event"
        /\ \E fail \in BOOLEAN :
              Finish(p,
                 IF fail THEN jsonError(c, "InternalServerError", "db error")
                 ELSE IF c.eid \notin EventIds
                 THEN jsonError(c, "NotFound", "event not found")
                 ELSE IF ~CanCreateTask(c.actor, EventById(c.eid))
                 THEN jsonError(c, "Forbidden", "only organizer can create tasks")
                 ELSE IF ~c.bodyOk THEN jsonError(c, "BadRequest", "invalid body")
                 ELSE [c EXCEPT !.pc = "ct_create"])
        /\ UNCHANGED <<events, tasks, attendees, nextEventId, nextTaskId, nextAttId>>

\* DB.Create(&task): tasks.event_id is the foreign key of Event.Tasks, so the
\* insert fails when the event row is gone
CreateTask_Create(p) ==
    LET c == calls[p]
    IN  /\ c.pc = "ct_create"
        /\ \E fail \in BOOLEAN :
              IF fail \/ c.eid \notin EventIds
              THEN /\ Finish(p,
                          jsonError(c, "InternalServerError", "could not create task"))
                   /\ UNCHANGED <<tasks, nextTaskId>>
              ELSE /\ tasks' = tasks \cup
                        {[id |-> nextTaskId, event |-> c.eid,
                          title |-> c.title, description |-> <<>>]}
                   /\ nextTaskId' = nextTaskId + 1
                   /\ Finish(p, Respond(c, "Created", "task"))
        /\ UNCHANGED <<events, attendees, nextEventId, nextAttId>>

\* ------------------------------------------------------------- GetOrganizedEvents
\* the orders in which a query may return the rows S
Perms(S) ==
    {f \in [1..Cardinality(S) -> S] : \A i, j \in 1..Cardinality(S) : i # j => f[i] # f[j]}

\* the date of a result: of the event row itself, or of the event it carries
DateOf(r) == r.date

\* ORDER BY date asc: rows of equal date come in either order
OrderByDate(S) ==
    {f \in Perms(S) : \A i, j \in 1..Cardinality(S) : i < j => DateOf(f[i]) <= DateOf(f[j])}

\* OrganizedBy that also matches the events the user has a row for
OrganizedBy_OrInvited(u) ==
    {e \in events : e.organizer = u \/ \E a \in attendees : a.event = e.id /\ a.user = u}

\* WHERE organizer_id = u
OrganizedBy(u) == {e \in events : e.organizer = u}

GetOrganizedEventsStart(actor) ==
    LET c == [Idle EXCEPT !.op = "GetOrganizedEvents", !.actor = actor]
    IN  IF actor = NoUser THEN jsonError(c, "Unauthorized", "unauthorized")
        ELSE [c EXCEPT !.pc = "goe_find"]

GetOrganizedEvents_Begin(p) ==
    /\ Free(p)
    /\ \E actor \in Actors : Finish(p, GetOrganizedEventsStart(actor))
    /\ UNCHANGED <<events, tasks, attendees, nextEventId, nextTaskId, nextAttId>>

\* Where("organizer_id = ?", userID).Order("date asc").Find(&events): the
\* query on events; with no event found there is nothing to preload
GetOrganizedEvents_Find(p) ==
    LET c == calls[p]
    IN  /\ c.pc = "goe_find"
        /\ \E fail \in BOOLEAN, found \in OrderByDate(OrganizedBy(c.actor)) :
              Finish(p,
                 IF fail THEN jsonError(c, "InternalServerError", "db error")
                 ELSE IF found = <<>> THEN Respond(c, "OK", "events")
                 ELSE [c EXCEPT !.pc = "goe_preload",
                                !.payload = [i \in 1..Len(found) |->
                                                [event |-> found[i], tasks |-> {}]]])
        /\ UNCHANGED <<events, tasks, attendees, nextEventId, nextTaskId, nextAttId>>

\* Preload("Tasks"): the query on tasks for the events found
GetOrganizedEvents_Preload(p) ==
    LET c == calls[p]
    IN  /\ c.pc = "goe_preload"
        /\ \E fail \in BOOLEAN :
              Finish(p,
                 IF fail THEN jsonError(c, "InternalServerError", "db error")
                 ELSE Respond([c EXCEPT !.payload =
                                  [i \in 1..Len(c.payload) |->
                                      [c.payload[i] EXCEPT !.tasks =
                                          {t \in tasks : t.event = c.payload[i].event.id}]]],
                              "OK", "events"))
        /\ UNCHANGED <<events, tasks, attendees, nextEventId, nextTaskId, nextAttId>>

\* ------------------------------------------------------------- GetEventAttendees
GetEventAttendeesStart(actor, param) ==
    LET c == [Idle EXCEPT !.op = "GetEventAttendees", !.actor = actor]
        id == ParseUint(param)
    IN  IF actor = NoUser THEN jsonError(c, "Unauthorized", "unauthorized")
        ELSE IF ~id.ok THEN jsonError(c, "BadRequest", "invalid event id")
        ELSE [c EXCEPT !.pc = "gea_event", !.eid = id.val]

GetEventAttendees_Begin(p) ==
    /\ Free(p)
    /\ \E actor \in Actors, param \in IdParams :
           Finish(p, GetEventAttendeesStart(actor, param))
    /\ UNCHANGED <<events, tasks, attendees, nextEventId, nextTaskId, nextAttId>>

\* CanViewAttendees letting every authenticated user read the list
CanViewAttendees_Anyone(actor, ev) == actor # NoUser

\* CanViewAttendees: only the organizer
CanViewAttendees(actor, ev) == ev.organizer = actor

\* DB.First(&ev, eventID) and the organizer check
GetEventAttendees_Event(p) ==
    LET c == calls[p]
    IN  /\ c.pc = "gea_event"
        /\ \E fail \in BOOLEAN :
              Finish(p,
                 IF fail THEN jsonError(c, "InternalServerError", "db error")
                 ELSE IF c.eid \notin EventIds
                 THEN jsonError(c, "NotFound", "event not found")
                 ELSE IF ~CanViewAttendees(c.actor, EventById(c.eid))
                 THEN jsonError(c, "Forbidden", "only organizer can view attendees")
                 ELSE [c EXCEPT !.pc = "gea_find", !.org = EventById(c.eid).organizer])
        /\ UNCHANGED <<events, tasks, attendees, nextEventId, nextTaskId, nextAttId>>

\* DB.Where("event_id = ?", eventID).Find(&attendees): no order is asked for
GetEventAttendees_Find(p) ==
    LET c == calls[p]
    IN  /\ c.pc = "gea_find"
        /\ \E fail \in BOOLEAN, found \in Perms({a \in attendees : a.event = c.eid}) :
              Finish(p,
                 IF fail THEN jsonError(c, "InternalServerError", "db error")
                 ELSE Respond([c EXCEPT !.payload = found], "OK", "attendees"))
        /\ UNCHANGED <<events, tasks, attendees, nextEventId, nextTaskId, nextAttId>>

\* ------------------------------------------------------------- GetTasksByEvent
\* the handler reads no caller identity: the path parameter alone
GetTasksByEventStart(param) ==
    LET c == [Idle EXCEPT !.op = "GetTasksByEvent"]
        id == ParseUint(param)
    IN  IF ~id.ok THEN jsonError(c, "BadRequest", "invalid event id")
        ELSE [c EXCEPT !.pc = "gt_find", !.eid = id.val]

GetTasksByEvent_Begin(p) ==
    /\ Free(p)
    /\ \E param \in IdParams : Finish(p, GetTasksByEventStart(param))
    /\ UNCHANGED <<events, tasks, attendees, nextEventId, nextTaskId, nextAttId>>

\* WHERE event_id = e on tasks: the events table is not read
TasksOf(e) == {t \in tasks : t.event = e}

\* DB.Where("event_id = ?", eventID).Find(&tasks): finding no row is no error
GetTasksByEvent_Find(p) ==
    LET c == calls[p]
    IN  /\ c.pc = "gt_find"
        /\ \E fail \in BOOLEAN, found \in Perms(TasksOf(c.eid)) :
              Finish(p,
                 IF fail THEN jsonError(c, "InternalServerError", "db error")
                 ELSE Respond([c EXCEPT !.payload = found], "OK", "tasks"))
        /\ UNCHANGED <<events, tasks, attendees, nextEventId, nextTaskId, nextAttId>>

\* ------------------------------------------------------------- SearchHandler
\* t occurs in s
Contains(s, t) == \E i \in 0..(Len(s) - Len(t)) : SubSeq(s, i + 1, i + Len(t)) = t

\* text ILIKE '%' || kw || '%', for a kw without the wildcards of LIKE
ILike(text, kw) == Contains(ToLower(text), ToLower(kw))

\* SearchRequest.Keyword as sent
SearchKeywords == {<<>>, <<" ", "O", "F", "F", " ">>, <<"v", "e", "n", "u", "e">>}

\* SearchRequest.StartDate as sent
StartInputs ==
    { [kind |-> "empty", day |-> 0, sec |-> 0],
      [kind |-> "ymd", day |-> 2, sec |-> 0],
      [kind |-> "junk", day |-> 0, sec |-> 0] }

\* SearchRequest.EndDate as sent
EndInputs ==
    { [kind |-> "empty", day |-> 0, sec |-> 0],
      [kind |-> "ymd", day |-> 1, sec |-> 0],
      [kind |-> "rfc3339", day |-> 1, sec |-> 43200],
      [kind |-> "junk", day |-> 0, sec |-> 0] }

\* SearchRequest.Role and SearchRequest.Type as sent
RoleInputs == {"", "organizer", "attendee", "admin"}
TypeInputs == {"", "event", "task", "both", "all"}

SearchRequests ==
    [keyword : SearchKeywords, start : StartInputs, end : EndInputs,
     role : RoleInputs, type : TypeInputs]

\* EndOfDay that leaves the instant as parsed
EndOfDay_None(t) == t

\* end.Add(23*time.Hour + 59*time.Minute + 59*time.Second)
EndOfDay(t) == t + 23 * 3600 + 59 * 60 + 59

\* the role values the query branches accept
RoleValid(role) == role \in {"", "organizer", "attendee"}

\* authentication, binding, the default type, date parsing and the keyword;
\* the role is looked at where the first query is built; start and end are 0
\* (the zero time) when absent; endDate is req.EndDate as sent
SearchStart(actor, req) ==
    LET c0    == [Idle EXCEPT !.op = "Search", !.actor = actor]
        type  == IF req.type = "" THEN "both" ELSE req.type
        start == ParseDate(req.start)
        end   == ParseDate(req.end)
        q     == [keyword |-> TrimSpace(req.keyword),
                  start   |-> IF req.start.kind = "empty" THEN 0 ELSE start.val,
                  end     |-> IF req.end.kind = "empty" THEN 0 ELSE EndOfDay(end.val),
                  role    |-> req.role,
                  type    |-> type,
                  endDate |-> req.end]
        c     == [c0 EXCEPT !.req = q]
    IN  IF actor = NoUser THEN jsonError(c0, "Unauthorized", "unauthorized")
        ELSE IF req.start.kind # "empty" /\ ~start.ok
        THEN jsonError(c, "BadRequest", "invalid start_date format")
        ELSE IF req.end.kind # "empty" /\ ~end.ok
        THEN jsonError(c, "BadRequest", "invalid end_date format")
        ELSE IF type \in {"both", "event"}
        THEN IF ~RoleValid(req.role)
             THEN jsonError(c, "BadRequest", "role must be 'organizer' or 'attendee'")
             ELSE [c EXCEPT !.pc = "se_events"]
        ELSE IF type = "task"
        THEN IF ~RoleValid(req.role)
             THEN jsonError(c, "BadRequest", "role must be 'organizer' or 'attendee'")
             ELSE [c EXCEPT !.pc = "se_tasks"]
        ELSE Respond(c, "OK", "results")

Search_Begin(p) ==
    /\ Free(p)
    /\ \E actor \in Actors, req \in SearchRequests : Finish(p, SearchStart(actor, req))
    /\ UNCHANGED <<events, tasks, attendees, nextEventId, nextTaskId, nextAttId>>

\* date >= start AND date <= end, each when given
InRange(e, q) ==
    /\ q.start # 0 => e.date >= q.start
    /\ q.end # 0 => e.date <= q.end

\* title ILIKE kw OR description ILIKE kw, when a keyword is given
EventKeyword(e, q) ==
    q.keyword # <<>> => ILike(e.title, q.keyword) \/ ILike(e.description, q.keyword)

\* the keyword on the task's fields or on its event's
TaskKeyword(t, e, q) ==
    q.keyword # <<>> =>
       \/ ILike(t.title, q.keyword) \/ ILike(t.description, q.keyword)
       \/ ILike(e.title, q.keyword) \/ ILike(e.description, q.keyword)

\* RoleJoin matching a row of the caller whatever its role
RoleJoin_AnyRole(e, q, actor) ==
    IF q.role = "organizer" THEN IF e.organizer = actor THEN {0} ELSE {}
    ELSE IF q.role = "attendee"
    THEN {a.id : a \in {x \in attendees : x.event = e.id /\ x.user = actor}}
    ELSE {0}

\* RoleJoin that shows a caller without role filter only the events the
\* caller organizes or has a row for
RoleJoin_OwnOnly(e, q, actor) ==
    IF q.role = "organizer" THEN IF e.organizer = actor THEN {0} ELSE {}
    ELSE IF q.role = "attendee"
    THEN {a.id : a \in {x \in attendees :
                           x.event = e.id /\ x.user = actor /\ x.role = "attendee"}}
    ELSE IF e.organizer = actor \/ \E x \in attendees : x.event = e.id /\ x.user = actor
    THEN {0} ELSE {}

\* the role clause: organizer_id = actor, or the JOIN with event_attendees,
\* which yields the event once for every row of the caller with role
\* attendee; the set names what each copy of e in the result comes from
RoleJoin(e, q, actor) ==
    IF q.role = "organizer" THEN IF e.organizer = actor THEN {0} ELSE {}
    ELSE IF q.role = "attendee"
    THEN {a.id : a \in {x \in attendees :
                           x.event = e.id /\ x.user = actor /\ x.role = "attendee"}}
    ELSE {0}

\* the rows of the events query
EventRows(q, actor) ==
    UNION {{[date |-> e.date, event |-> e, via |-> v] : v \in RoleJoin(e, q, actor)} :
             e \in {x \in events : InRange(x, q) /\ EventKeyword(x, q)}}

\* the rows of the tasks query: tasks JOIN events ON events.id = tasks.event_id
TaskRows(q, actor) ==
    UNION {UNION {{[date |-> e.date, task |-> t, via |-> v] : v \in RoleJoin(e, q, actor)} :
                    e \in {x \in events :
                             x.id = t.event /\ InRange(x, q) /\ TaskKeyword(t, x, q)}} :
             t \in tasks}

\* the zero value of Task
NoTask == [id |-> 0, event |-> 0, title |-> <<>>, description |-> <<>>]

\* gin.H{"type": "event", "event": e}, e with its tasks preloaded
EventResult(e) ==
    [type |-> "event", event |-> e, task |-> NoTask,
     tasks |-> {t \in tasks : t.event = e.id}]

\* gin.H{"type": "task", "task": t, "event": ev}
TaskResult(t, e) == [type |-> "task", event |-> e, task |-> t, tasks |-> {}]

\* OrderBy ordering by identifier
OrderBy_Id(S) ==
    {f \in Perms(S) : \A i, j \in 1..Cardinality(S) : i < j => f[i].via <= f[j].via}

\* Order("date asc") of the two queries
OrderBy(S) == OrderByDate(S)

\* query.Order("date asc").Find(&events), with the tasks preloaded
Search_Events(p) ==
    LET c == calls[p]
    IN  /\ c.pc = "se_events"
        /\ \E fail \in BOOLEAN, rows \in OrderBy(EventRows(c.req, c.actor)) :
              LET d == [c EXCEPT !.payload =
                           [i \in 1..Len(rows) |-> EventResult(rows[i].event)]]
              IN  Finish(p,
                     IF fail THEN jsonError(c, "InternalServerError", "db error")
                     ELSE IF c.req.type = "both" THEN [d EXCEPT !.pc = "se_tasks"]
                     ELSE Respond(d, "OK", "results"))
        /\ UNCHANGED <<events, tasks, attendees, nextEventId, nextTaskId, nextAttId>>

\* taskQuery.Select("tasks.*").Order("events.date asc").Find(&tasks)
Search_Tasks(p) ==
    LET c == calls[p]
    IN  /\ c.pc = "se_tasks"
        /\ \E fail \in BOOLEAN, rows \in OrderBy(TaskRows(c.req, c.actor)) :
              Finish(p,
                 IF fail THEN jsonError(c, "InternalServerError", "db error")
                 ELSE IF rows = <<>> THEN Respond(c, "OK", "results")
                 ELSE [c EXCEPT !.pc = "se_attach",
                                !.found = [i \in 1..Len(rows) |-> rows[i].task]])
        /\ UNCHANGED <<events, tasks, attendees, nextEventId, nextTaskId, nextAttId>>

\* one turn of the loop over the tasks found: DB.Where("id = ?", t.EventID)
\* .First(&ev); the task is left out when the lookup fails for any reason
Search_Attach(p) ==
    LET c == calls[p]
        t == Head(c.found)
    IN  /\ c.pc = "se_attach"
        /\ \E fail \in BOOLEAN :
              LET d == IF fail \/ t.event \notin EventIds
                       THEN [c EXCEPT !.found = Tail(@), !.skipped = @ \cup {t.id}]
                       ELSE [c EXCEPT !.found = Tail(@),
                                      !.payload = Append(@, TaskResult(t, EventById(t.event)))]
              IN  Finish(p, IF d.found = <<>> THEN Respond(d, "OK", "results") ELSE d)
        /\ UNCHANGED <<events, tasks, attendees, nextEventId, nextTaskId, nextAttId>>

\* the response written by the last step reaches its client
Deliver ==
    /\ resp # NoResp
    /\ resp' = NoResp
    /\ payload' = NoPayload
    /\ asked' = NoAsked
    /\ UNCHANGED <<events, tasks, attendees, nextEventId, nextTaskId, nextAttId, calls>>

\* ------------------------------------------------------------- specifications
\* a request begun in a concurrent run is counted, up to MaxCalls
Counted(A) == ncalls < MaxCalls /\ ncalls' = ncalls + 1 /\ A

\* any other step
Plain(A) == UNCHANGED ncalls /\ A

\* requests served concurrently, each on its own process: their store
\* statements interleave
Next ==
    \E p \in Procs :
       \/ Counted(CreateEvent_Begin(p))
       \/ Counted(DeleteEvent_Begin(p))
       \/ Counted(InviteUser_Begin(p))
       \/ Counted(SetAttendance_Begin(p))
       \/ Counted(CreateTask_Begin(p))
       \/ Counted(GetOrganizedEvents_Begin(p))
       \/ Counted(GetEventAttendees_Begin(p))
       \/ Counted(GetTasksByEvent_Begin(p))
       \/ Plain(CreateEvent_Create(p))
       \/ Plain(CreateEvent_OrgFind(p))
       \/ Plain(CreateEvent_OrgCreate(p))
       \/ Plain(DeleteEvent_Find(p))
       \/ Plain(DeleteEvent_Tx(p))
       \/ Plain(InviteUser_Event(p))
       \/ Plain(InviteUser_User(p))
       \/ Plain(InviteUser_Find(p))
       \/ Plain(InviteUser_Create(p))
       \/ Plain(SetAttendance_Event(p))
       \/ Plain(SetAttendance_Find(p))
       \/ Plain(SetAttendance_Create(p))
       \/ Plain(SetAttendance_Save(p))
       \/ Plain(CreateTask_Event(p))
       \/ Plain(CreateTask_Create(p))
       \/ Plain(GetOrganizedEvents_Find(p))
       \/ Plain(GetOrganizedEvents_Preload(p))
       \/ Plain(GetEventAttendees_Event(p))
       \/ Plain(GetEventAttendees_Find(p))
       \/ Plain(GetTasksByEvent_Find(p))
       \/ Plain(Deliver)

Spec == Init /\ [][Next]_vars

\* requests served one after the other, by one process
NextSeq ==
    \/ Plain(CreateEvent_Begin(1))
    \/ Plain(DeleteEvent_Begin(1))
    \/ Plain(InviteUser_Begin(1))
    \/ Plain(SetAttendance_Begin(1))
    \/ Plain(CreateTask_Begin(1))
    \/ Plain(GetOrganizedEvents_Begin(1))
    \/ Plain(GetEventAttendees_Begin(1))
    \/ Plain(GetTasksByEvent_Begin(1))
    \/ Plain(CreateEvent_Create(1))
    \/ Plain(CreateEvent_OrgFind(1))
    \/ Plain(CreateEvent_OrgCreate(1))
    \/ Plain(DeleteEvent_Find(1))
    \/ Plain(DeleteEvent_Tx(1))
    \/ Plain(InviteUser_Event(1))
    \/ Plain(InviteUser_User(1))
    \/ Plain(InviteUser_Find(1))
    \/ Plain(InviteUser_Create(1))
    \/ Plain(SetAttendance_Event(1))
    \/ Plain(SetAttendance_Find(1))
    \/ Plain(SetAttendance_Create(1))
    \/ Plain(SetAttendance_Save(1))
    \/ Plain(CreateTask_Event(1))
    \/ Plain(CreateTask_Create(1))
    \/ Plain(GetOrganizedEvents_Find(1))
    \/ Plain(GetOrganizedEvents_Preload(1))
    \/ Plain(GetEventAttendees_Event(1))
    \/ Plain(GetEventAttendees_Find(1))
    \/ Plain(GetTasksByEvent_Find(1))
    \/ Plain(Deliver)

SpecSeq == Init /\ [][NextSeq]_vars

\* ------------------------------------------------------------- SpecSearch
\* the dates of the events searched: day 1 at 23:59:59 and day 2 at 00:00:01
SearchDates == {1 * 86400 + 86399, 2 * 86400 + 1}

\* the events CreateEvent can have inserted under identifier i
EventChoices(i) ==
    {[id |-> i, organizer |-> u, date |-> d, title |-> Offsite, description |-> <<>>] :
        u \in Users, d \in SearchDates}

\* the tasks CreateTask can have inserted
TaskChoices ==
    {[id |-> i, event |-> e, title |-> BookVenue, description |-> <<>>] :
        i \in 1..MaxFound, e \in 1..MaxEvents}

\* the row of user u for event e
PairRow(e, u, role) ==
    [id |-> NumUsers * (e - 1) + u, event |-> e, user |-> u, role |-> role, status |-> ""]

\* a store as requests served one after the other leave it: events with
\* their organizer rows, invitations of other users, tasks of the events
InitSearch ==
    /\ events \in {E \in SUBSET UNION {EventChoices(i) : i \in 1..MaxEvents} :
                      \A x, y \in E : x.id = y.id => x = y}
    /\ tasks \in {T \in SUBSET TaskChoices :
                     /\ \A x, y \in T : x.id = y.id => x = y
                     /\ \A t \in T : t.event \in EventIds}
    /\ \E invited \in SUBSET UNION {{PairRow(e.id, u, "attendee") :
                                       u \in Users \ {e.organizer}} : e \in events} :
          attendees = invited \cup {PairRow(e.id, e.organizer, "organizer") : e \in events}
    /\ nextEventId = MaxEvents + 1
    /\ nextTaskId = MaxFound + 1
    /\ nextAttId = NumUsers * MaxEvents + 1
    /\ calls = [p \in Procs |-> Idle]
    /\ resp = NoResp
    /\ payload = NoPayload
    /\ asked = NoAsked
    /\ ncalls = 0

\* searches served one after the other over a store that stays as it is
NextSearch ==
    \/ Plain(Search_Begin(1))
    \/ Plain(Search_Events(1))
    \/ Plain(Search_Tasks(1))
    \/ Plain(Search_Attach(1))
    \/ Plain(Deliver)

SpecSearch == InitSearch /\ [][NextSearch]_vars

\* ------------------------------------------------------------- properties
\* the store columns a request can change
Rows == <<events, tasks, attendees>>

\* process p answers its request in this step
Answers(p) == calls[p].pc # "idle" /\ calls'[p].pc = "idle"

\* C1: served one after the other, CreateEvent, InviteUser, SetAttendance and
\* DeleteEvent calls never leave two event_attendees rows for one
\* (event, user) pair.
C1_OneRowPerPair ==
    \A a, b \in attendees : a.event = b.event /\ a.user = b.user => a = b

\* C1 witness: an event was deleted, another is left with an attendee who
\* answered, and a repeated invitation was just found to be a duplicate
C1_Witness ==
    /\ resp.op = "InviteUser" /\ resp.msg = "user already invited or participant"
    /\ nextEventId > Cardinality(events) + 1
    /\ \E a \in attendees : a.role = "attendee" /\ a.status # ""

\* C2: InviteUser's lookup and its insert are two store steps and the table
\* has no uniqueness on (event_id, user_id): the lookup step that finds no
\* row changes nothing in the store, and the insert step that answers
\* "user invited" adds one row for the pair whatever rows the pair has by
\* then.  (The two rows of one pair are the witness.)
C2_LookupThenInsert ==
    [][\A p \in Procs :
          LET c == calls[p]
          IN  /\ c.pc = "iu_find" /\ calls'[p].pc = "iu_create" => Rows' = Rows
              /\ c.pc = "iu_create" /\ Answers(p) /\ resp'.code = "OK" =>
                    /\ Cardinality(PairRows(attendees', c.eid, c.target)) =
                          Cardinality(PairRows(attendees, c.eid, c.target)) + 1
                    /\ resp'.msg = "user invited"]_vars

\* C2 witness: two invitation rows (role attendee, no answer yet) for one
\* (event, user) pair
C2_Witness ==
    \E a, b \in attendees :
       /\ a # b /\ a.event = b.event /\ a.user = b.user
       /\ a.role = "attendee" /\ b.role = "attendee"
       /\ a.status = "" /\ b.status = ""

\* C3: served one after the other, an InviteUser by the organizer for a
\* registered user other than the organizer who already has a row for the
\* event (from an invitation or from the user's own RSVP) changes no row at
\* any of its steps, never reaches the insert, and answers 200 "user already
\* invited or participant" from the lookup (500 when the store itself
\* reports an error); the pair keeps exactly one row.
C3_InviteIdempotent ==
    [][\A p \in Procs :
          LET c == calls[p]
          IN  /\ c.op = "InviteUser" /\ calls'[p] # c
              /\ c.eid \in EventIds /\ EventById(c.eid).organizer = c.actor
              /\ c.target \in Users \ {c.actor}
              /\ PairRows(attendees, c.eid, c.target) # {}
              => /\ Rows' = Rows
                 /\ c.pc # "iu_create"
                 /\ Cardinality(PairRows(attendees', c.eid, c.target)) = 1
                 /\ Answers(p) =>
                       \/ resp'.code = "InternalServerError"
                       \/ /\ c.pc = "iu_find"
                          /\ resp' = [op |-> "InviteUser", code |-> "OK",
                                      msg |-> "user already invited or participant"]]_vars

\* C3 witness: the duplicate invitation was just answered, and the row it
\* found carries an answer of the invited user
C3_Witness ==
    /\ resp = [op |-> "InviteUser", code |-> "OK",
               msg |-> "user already invited or participant"]
    /\ \E a \in attendees : a.role = "attendee" /\ a.status = "Not Going"

\* C4 (the claim): a row with role organizer keeps its empty status
C4_OrganizerRowsImmutable ==
    \A a \in attendees : a.role = "organizer" => a.status = ""

\* C5 (the claim): an event row exists exactly when its organizer's row with
\* role organizer exists
C5_EventIffOrganizerRow ==
    /\ \A e \in events :
          \E a \in attendees :
             a.event = e.id /\ a.user = e.organizer /\ a.role = "organizer"
    /\ \A a \in attendees :
          a.role = "organizer" =>
             \E e \in events : e.id = a.event /\ e.organizer = a.user

\* C6: the step in which DeleteEvent on event E answers 200 leaves no event
\* row E, no task of E and no attendance row of E, and leaves the rows of
\* every other event as they were.
C6_DeleteCascades ==
    [][\A p \in Procs :
          LET c == calls[p]
          IN  c.op = "DeleteEvent" /\ Answers(p) /\ resp'.code = "OK" =>
                /\ events' = {e \in events : e.id # c.eid}
                /\ tasks' = {t \in tasks : t.event # c.eid}
                /\ attendees' = {a \in attendees : a.event # c.eid}
                /\ c.eid \notin {e.id : e \in events'}
                /\ c.eid \notin {t.event : t \in tasks'}
                /\ c.eid \notin {a.event : a \in attendees'}]_vars

\* C6 witness: a delete was just answered 200; the deleted event had the
\* only task; another event is left with its attendance rows
C6_Witness ==
    /\ resp = [op |-> "DeleteEvent", code |-> "OK", msg |-> "event deleted"]
    /\ nextTaskId > 1 /\ tasks = {}
    /\ events # {} /\ attendees # {}

\* C7: no step of a DeleteEvent call removes part of an event: its lookup
\* changes nothing, and its transaction either answers 500 and leaves events,
\* tasks and attendance rows as they were, or answers 200 with the event, its
\* tasks and its attendance rows all gone.
C7_AllOrNothing ==
    [][\A p \in Procs :
          LET c == calls[p]
          IN  c.op = "DeleteEvent" /\ calls'[p] # c =>
                \/ c.pc = "de_find" /\ Rows' = Rows
                \/ /\ c.pc = "de_tx" /\ Answers(p)
                   /\ resp'.code = "InternalServerError" /\ Rows' = Rows
                \/ /\ c.pc = "de_tx" /\ Answers(p) /\ resp'.code = "OK"
                   /\ c.eid \notin {e.id : e \in events'}
                   /\ c.eid \notin {t.event : t \in tasks'}
                   /\ c.eid \notin {a.event : a \in attendees'}]_vars

\* C7 witness: a delete was just answered 500 by its transaction and the one
\* event still has its task and its attendance row
C7_Witness ==
    /\ resp = [op |-> "DeleteEvent", code |-> "InternalServerError", msg |-> "delete failed"]
    /\ Cardinality(events) = 1 /\ nextEventId = 2
    /\ \E e \in events :
          /\ \E t \in tasks : t.event = e.id
          /\ \E a \in attendees : a.event = e.id

\* C8: the lookup step of a DeleteEvent by a user who is not the organizer of
\* the existing event E ends the call with 403 (500 when the store itself
\* reports an error) and changes no row.
C8_DeleteForbidden ==
    [][\A p \in Procs :
          LET c == calls[p]
          IN  /\ c.op = "DeleteEvent" /\ c.pc = "de_find" /\ calls'[p] # c
              /\ c.eid \in EventIds /\ EventById(c.eid).organizer # c.actor
              => /\ Answers(p)
                 /\ Rows' = Rows
                 /\ resp'.code \in {"Forbidden", "InternalServerError"}
                 /\ resp'.code = "Forbidden" =>
                       resp'.msg = "only organizer can delete the event"]_vars

\* C8 witness: a delete was just answered 403 and the event still has its
\* task and its attendance row
C8_Witness ==
    /\ resp.op = "DeleteEvent" /\ resp.code = "Forbidden"
    /\ \E e \in events :
          /\ \E t \in tasks : t.event = e.id
          /\ \E a \in attendees : a.event = e.id

\* C9: served one after the other, a SetAttendance by user u on event E that
\* finds a row for (E, u) goes on to save that row, and its save, when it
\* answers 200, replaces the row by itself with the requested (normalised)
\* status: same identifier, event, user and role, still the only row of the
\* pair; a save of the status the row already has changes nothing; a save
\* that answers 500 changes nothing.
C9_RsvpOverwritesInPlace ==
    [][\A p \in Procs :
          LET c   == calls[p]
              new == [c.att EXCEPT !.status = c.status]
          IN  /\ c.op = "SetAttendance" /\ calls'[p] # c
                 /\ c.pc = "sa_find" /\ PairRows(attendees, c.eid, c.actor) # {}
                 => /\ Rows' = Rows
                    /\ \/ Answers(p) /\ resp'.code = "InternalServerError"
                       \/ /\ calls'[p].pc = "sa_save"
                          /\ calls'[p].att \in PairRows(attendees, c.eid, c.actor)
              /\ c.op = "SetAttendance" /\ calls'[p] # c /\ c.pc = "sa_save"
                 => /\ c.att \in attendees
                    /\ c.status \in {"Going", "Maybe", "Not Going"}
                    /\ Answers(p)
                    /\ resp'.code = "OK" =>
                          /\ attendees' = (attendees \ {c.att}) \cup {new}
                          /\ PairRows(attendees', c.eid, c.actor) = {new}
                          /\ events' = events /\ tasks' = tasks
                    /\ resp'.code # "OK" => Rows' = Rows
                    /\ c.att.status = c.status => Rows' = Rows]_vars

\* C9 witness: an RSVP was just answered 200 and a row that was inserted with
\* an empty status and role organizer now holds an answer: only the save of
\* an RSVP that found the row writes a status into an existing row
C9_Witness ==
    /\ resp = [op |-> "SetAttendance", code |-> "OK", msg |-> "attendance"]
    /\ \E a \in attendees : a.role = "organizer" /\ a.status # ""

\* C10: the step of InviteUser that reads the invited user, when that user is
\* the event's organizer, ends the call with 400 "user is already organizer"
\* (500 when the store itself reports an error) and changes no row; and no
\* step of an InviteUser call adds a row for the user organizing its event.
C10_InviteOrganizerRejected ==
    [][\A p \in Procs :
          LET c == calls[p]
          IN  /\ c.op = "InviteUser" /\ c.pc = "iu_user" /\ calls'[p] # c
                 /\ c.target = c.org
                 => /\ Answers(p)
                    /\ Rows' = Rows
                    /\ \/ resp'.code = "InternalServerError"
                       \/ resp' = [op |-> "InviteUser", code |-> "BadRequest",
                                   msg |-> "user is already organizer"]
              /\ c.op = "InviteUser" /\ calls'[p] # c
                 => /\ c.pc \in {"iu_user", "iu_find", "iu_create"} =>
                          c.org = c.actor /\
                          (c.eid \in EventIds => EventById(c.eid).organizer = c.org)
                    /\ \A a \in attendees' \ attendees :
                          a.event = c.eid /\ a.user # c.org /\ a.role = "attendee"]_vars

\* C10 witness: an invitation of the organizer was just answered 400
C10_Witness ==
    resp = [op |-> "InviteUser", code |-> "BadRequest", msg |-> "user is already organizer"]

\* C11: InviteUser, CreateTask and GetEventAttendees go on past their event
\* lookup only for the event's organizer: for any other caller of an existing
\* event the lookup step ends the call with 403 (500 when the store itself
\* reports an error) and changes no row; a call of the three that answers 200
\* or 201 was made by the organizer; and every task row and every attendance
\* row with empty status is inserted by a step of a CreateTask, InviteUser or
\* CreateEvent call of the organizer of the row's event.
C11_OrganizerOnly ==
    [][\A p \in Procs :
          LET c == calls[p]
          IN  /\ c.pc \in {"iu_event", "ct_event", "gea_event"} /\ calls'[p] # c
                 /\ c.eid \in EventIds /\ EventById(c.eid).organizer # c.actor
                 => /\ Answers(p)
                    /\ Rows' = Rows
                    /\ resp'.code \in {"Forbidden", "InternalServerError"}
              /\ c.op \in {"InviteUser", "CreateTask", "GetEventAttendees"}
                 /\ Answers(p) /\ resp'.code \in {"OK", "Created"}
                 => /\ c.eid \in EventIds => EventById(c.eid).organizer = c.actor
                    /\ c.op # "CreateTask" => c.org = c.actor
              /\ c.op \notin {"CreateTask"} /\ calls'[p] # c => tasks' \subseteq tasks
              /\ c.op = "CreateTask" /\ calls'[p] # c
                 => \A t \in tasks' \ tasks :
                       /\ t.event = c.eid /\ c.eid \in EventIds
                       /\ EventById(c.eid).organizer = c.actor
              /\ calls'[p] # c
                 => \A a \in attendees' \ attendees :
                       a.status = "" =>
                          /\ c.op \in {"InviteUser", "CreateEvent"}
                          /\ a.event = c.eid
                          /\ c.eid \in EventIds => EventById(c.eid).organizer = c.actor
                          /\ c.op = "InviteUser" => c.org = c.actor]_vars

\* C11 witness: an invitation by a user who is not the organizer was just
\* answered 403, and the event has a task and a row with empty status
C11_Witness ==
    /\ resp = [op |-> "InviteUser", code |-> "Forbidden",
               msg |-> "only organizer can invite others"]
    /\ \E e \in events :
          /\ \E t \in tasks : t.event = e.id
          /\ \E a \in attendees : a.event = e.id /\ a.status = ""

\* C12 (the claim): the body is validated before the existence and the
\* authorization checks: an InviteUser or SetAttendance call reaches its
\* first store statement only with a valid body, and a CreateTask call with
\* an invalid body is never answered 404 or 403.
C12_BodyBeforeLookup ==
    [][\A p \in Procs :
          LET c == calls[p]
          IN  /\ c.op = "InviteUser" /\ calls'[p] # c => c.target # 0
              /\ c.op = "SetAttendance" /\ calls'[p] # c =>
                    c.status \in {"Going", "Maybe", "Not Going"}
              /\ c.op = "CreateTask" /\ Answers(p) /\ ~c.bodyOk =>
                    resp'.code \notin {"NotFound", "Forbidden"}]_vars

\* process p answers a search with its results in this step
SearchAnswered(p) == calls[p].op = "Search" /\ Answers(p) /\ resp'.code = "OK"

\* the results of one kind in a response
ResultsOf(out, type) == {out[i] : i \in {j \in 1..Len(out) : out[j].type = type}}

\* the tasks left out by the search that p answers in this step, because the
\* lookup of their event failed
LeftOut(p) ==
    calls[p].skipped \cup
       IF calls[p].pc = "se_attach" /\ Len(payload') = Len(calls[p].payload)
       THEN {Head(calls[p].found).id} ELSE {}

\* user u has a row with role attendee for event e
HasAttendeeRow(e, u) ==
    \E a \in attendees : a.event = e /\ a.user = u /\ a.role = "attendee"

\* the event of task t
ParentOf(t) == CHOOSE e \in events : e.id = t.event

\* C13: a search with role=organizer returns only results whose event is
\* organized by the caller, every event of the caller that passes the
\* keyword and date filters, and every task of such an event; a search
\* with role=attendee returns exactly the events (and the tasks of the
\* events) that pass the other filters and for which the caller has a row
\* with role attendee: the caller's organizer row does not count.  A task is
\* missing from the results only when the lookup of its event failed.
C13_RoleFilter ==
    [][\A p \in Procs :
          LET c   == calls[p]
              q   == c.req
              out == payload'
              mine(e) == IF q.role = "organizer" THEN e.organizer = c.actor
                         ELSE HasAttendeeRow(e.id, c.actor)
          IN  SearchAnswered(p) /\ q.role \in {"organizer", "attendee"} =>
                /\ \A i \in 1..Len(out) : mine(out[i].event)
                /\ q.type \in {"both", "event"} =>
                      {r.event : r \in ResultsOf(out, "event")} =
                         {e \in events : mine(e) /\ InRange(e, q) /\ EventKeyword(e, q)}
                /\ q.type = "task" => ResultsOf(out, "event") = {}
                /\ q.type = "event" => ResultsOf(out, "task") = {}
                /\ q.type \in {"both", "task"} =>
                      /\ \A r \in ResultsOf(out, "task") :
                            r.task \in tasks /\ r.event = ParentOf(r.task)
                      /\ {r.task.id : r \in ResultsOf(out, "task")} \cup LeftOut(p) =
                            {t.id : t \in {x \in tasks :
                                /\ x.event \in EventIds
                                /\ mine(ParentOf(x))
                                /\ InRange(ParentOf(x), q)
                                /\ TaskKeyword(x, ParentOf(x), q)}}]_vars

\* C13 witness: a search with role=attendee has run its events query: it
\* found an event the caller is invited to and left out one the caller
\* organizes, and goes on to the tasks
C13_Witness ==
    LET c == calls[1]
    IN  /\ c.op = "Search" /\ c.pc = "se_tasks" /\ c.req.role = "attendee"
        /\ c.req.keyword # <<>> /\ c.req.start = 0 /\ c.req.end = 0
        /\ Len(c.payload) = 1
        /\ HasAttendeeRow(c.payload[1].event.id, c.actor)
        /\ \E e \in events : e.organizer = c.actor /\ ~HasAttendeeRow(e.id, c.actor)
        /\ \E t \in tasks : t.event = c.payload[1].event.id

\* C14: a search answered with results returns, for type=event, only event
\* results; for type=task, only task results; for type=both (also when no
\* type was sent), the event results first and the task results after them,
\* no task result before an event result.  The event results come in
\* ascending date and the task results in ascending date of their event;
\* with no role filter the event results are all events that pass the
\* keyword and date filters, and the task results all tasks that pass them
\* (but for a task whose event lookup failed).
C14_ShapeAndOrder ==
    [][\A p \in Procs :
          LET c   == calls[p]
              q   == c.req
              out == payload'
          IN  SearchAnswered(p) =>
                /\ q.type = "event" => \A i \in 1..Len(out) : out[i].type = "event"
                /\ q.type = "task" => \A i \in 1..Len(out) : out[i].type = "task"
                /\ q.type \in {"both", "event", "task"} \/ out = <<>>
                /\ \A i, j \in 1..Len(out) :
                      i < j =>
                         /\ ~(out[i].type = "task" /\ out[j].type = "event")
                         /\ out[i].type = out[j].type =>
                               out[i].event.date <= out[j].event.date
                /\ q.type = "both" /\ q.role = "" =>
                      /\ {r.event : r \in ResultsOf(out, "event")} =
                            {e \in events : InRange(e, q) /\ EventKeyword(e, q)}
                      /\ {r.task.id : r \in ResultsOf(out, "task")} \cup LeftOut(p) =
                            {t.id : t \in {x \in tasks :
                                /\ x.event \in EventIds
                                /\ InRange(ParentOf(x), q)
                                /\ TaskKeyword(x, ParentOf(x), q)}}]_vars

\* C14 witness: a search was just answered with two events in ascending date
\* and then two tasks in ascending date of their events, each pair against
\* the order of its identifiers
C14_Witness ==
    /\ resp = [op |-> "Search", code |-> "OK", msg |-> "results"]
    /\ Len(payload) = 4
    /\ payload[1].type = "event" /\ payload[2].type = "event"
    /\ payload[3].type = "task" /\ payload[4].type = "task"
    /\ payload[1].event.date < payload[2].event.date
    /\ payload[1].event.id > payload[2].event.id
    /\ payload[3].event.date < payload[4].event.date
    /\ payload[3].task.id > payload[4].task.id

RECURSIVE Pick(_, _, _)
\* the elements of s at the positions K, from position i on
Pick(s, K, i) ==
    IF i > Len(s) THEN <<>>
    ELSE (IF i \in K THEN <<s[i]>> ELSE <<>>) \o Pick(s, K, i + 1)

\* the result sequences a search with the parsed request q can return to
\* user u over the store as it is: the events query when the type asks for
\* it, then the tasks found whose event lookup did not fail
Outcomes(q, u) ==
    LET evs == IF q.type \in {"both", "event"}
               THEN {[i \in 1..Len(rows) |-> EventResult(rows[i].event)] :
                        rows \in OrderBy(EventRows(q, u))}
               ELSE {<<>>}
        tks == IF q.type \in {"both", "task"}
               THEN UNION {{Pick([i \in 1..Len(rows) |->
                                     TaskResult(rows[i].task, ParentOf(rows[i].task))],
                                 K, 1) : K \in SUBSET (1..Len(rows))} :
                             rows \in OrderBy(TaskRows(q, u))}
               ELSE {<<>>}
    IN  {a \o b : a \in evs, b \in tks}

\* user u has no part in event e
Stranger(e, u) == e.organizer # u /\ \A a \in attendees : ~(a.event = e.id /\ a.user = u)

LastSecond(d) == d * 86400 + 86399

\* C16: a search whose endDate is the calendar date D returns exactly the
\* events dated at most D 23:59:59 among those that pass the keyword, start
\* and role filters, and exactly the tasks of such events (but for a task
\* whose event lookup failed): an event dated D 23:59:59 is in, an event
\* dated one second past the next midnight is out.
C16_EndDateInclusive ==
    [][\A p \in Procs :
          LET c   == calls[p]
              q   == c.req
              out == payload'
              D   == q.endDate.day
              others(e) == /\ q.start # 0 => e.date >= q.start
                           /\ RoleJoin(e, q, c.actor) # {}
          IN  SearchAnswered(p) /\ q.endDate.kind = "ymd" =>
                /\ \A i \in 1..Len(out) : out[i].event.date <= LastSecond(D)
                /\ \A i \in 1..Len(out) : out[i].event.date # (D + 1) * 86400 + 1
                /\ q.type \in {"both", "event"} =>
                      {r.event : r \in ResultsOf(out, "event")} =
                         {e \in events : /\ e.date <= LastSecond(D)
                                         /\ others(e) /\ EventKeyword(e, q)}
                /\ q.type \in {"both", "task"} =>
                      {r.task.id : r \in ResultsOf(out, "task")} \cup LeftOut(p) =
                         {t.id : t \in {x \in tasks :
                             /\ x.event \in EventIds
                             /\ ParentOf(x).date <= LastSecond(D)
                             /\ others(ParentOf(x))
                             /\ TaskKeyword(x, ParentOf(x), q)}}]_vars

\* C16 witness: a search with endDate 1 (a calendar date) and no other filter
\* has run its events query: it found the event dated day 1 23:59:59 and
\* left out the event dated day 2 00:00:01
C16_Witness ==
    LET c == calls[1]
    IN  /\ c.op = "Search" /\ c.pc = "se_tasks"
        /\ c.req.endDate = [kind |-> "ymd", day |-> 1, sec |-> 0]
        /\ c.req.role = "" /\ c.req.start = 0 /\ c.req.keyword = <<>>
        /\ Len(c.payload) = 1
        /\ c.payload[1].event.date = LastSecond(1)
        /\ \E e \in events : e.date = 2 * 86400 + 1

\* C17: the query of GetOrganizedEvents by user u, in whatever state it
\* runs, finds every event organized by u, each once, and no event organized
\* by another user, whatever rows u has for that event; the response carries
\* the events the query found.
C17_OrganizedEvents ==
    [][\A p \in Procs :
          LET c     == calls[p]
              found == IF Answers(p) THEN payload' ELSE calls'[p].payload
          IN  /\ c.pc = "goe_find" /\ calls'[p] # c =>
                    \/ Answers(p) /\ resp'.code = "InternalServerError"
                    \/ /\ {found[i].event : i \in 1..Len(found)} =
                             {e \in events : e.organizer = c.actor}
                       /\ Len(found) = Cardinality({e \in events : e.organizer = c.actor})
                       /\ \A e \in events :
                             e.organizer # c.actor =>
                                \A i \in 1..Len(found) : found[i].event.id # e.id
              /\ c.pc = "goe_preload" /\ Answers(p) /\ resp'.code = "OK" =>
                    /\ Len(payload') = Len(c.payload)
                    /\ \A i \in 1..Len(payload') : payload'[i].event = c.payload[i].event]_vars

\* C17 witness: GetOrganizedEvents was just answered with no event, by a
\* query that ran on a store with an event and a row with role attendee for
\* it: the caller is not the organizer of that event
C17_Witness ==
    /\ resp = [op |-> "GetOrganizedEvents", code |-> "OK", msg |-> "events"]
    /\ payload = <<>>
    /\ \E e \in events : \E a \in attendees : a.event = e.id /\ a.role = "attendee"

\* C18 (the claim): a SetAttendance by the organizer of event E, answered
\* 200 while the organizer's row with role organizer exists, leaves a second
\* row for (E, organizer) with role attendee beside the row with role
\* organizer.
C18_OrganizerRsvpSecondRow ==
    [][\A p \in Procs :
          LET c == calls[p]
          IN  /\ c.op = "SetAttendance" /\ Answers(p) /\ resp'.code = "OK"
              /\ c.eid \in EventIds /\ EventById(c.eid).organizer = c.actor
              /\ \E a \in PairRows(attendees, c.eid, c.actor) : a.role = "organizer"
              => /\ \E a \in PairRows(attendees', c.eid, c.actor) : a.role = "organizer"
                 /\ \E b \in PairRows(attendees', c.eid, c.actor) : b.role = "attendee"]_vars

\* C19: a step that changes the status of a row that exists before and after
\* it is the save of a SetAttendance call made by the row's user on the
\* row's event, and changes nothing else of the row; no step of any other
\* call, and no step of a SetAttendance by another user or on another event,
\* changes the status of an existing row.
C19_StatusFrame ==
    [][\A a \in attendees :
          \A b \in attendees' :
             a.id = b.id /\ a # b =>
                \E p \in Procs :
                   LET c == calls[p]
                   IN  /\ calls'[p] # c
                       /\ c.op = "SetAttendance" /\ c.pc = "sa_save"
                       /\ c.actor = a.user /\ c.eid = a.event
                       /\ b = [a EXCEPT !.status = c.status]]_vars

\* C19 witness: an RSVP was just answered 200; the organizer's row, inserted
\* with empty status, holds an answer, and another row of the same event
\* still has the empty status it was inserted with
C19_Witness ==
    /\ resp = [op |-> "SetAttendance", code |-> "OK", msg |-> "attendance"]
    /\ \E a, b \in attendees :
          /\ a.event = b.event /\ a.user # b.user
          /\ a.role = "organizer" /\ a.status # ""
          /\ b.role = "attendee" /\ b.status = ""

\* C20 (the claim): every task row and every attendance row references an
\* event that is in the store.
C20_NoOrphans ==
    /\ \A t \in tasks : t.event \in EventIds
    /\ \A a \in attendees : a.event \in EventIds

\* C21 (the claim): the insert of a SetAttendance by user u on event E, which
\* runs when the call's lookup found no row for (E, u), leaves the pair with
\* one row, whatever other SetAttendance or InviteUser call for the pair is
\* in flight.
C21_RsvpKeepsPairUnique ==
    [][\A p \in Procs :
          LET c == calls[p]
          IN  c.op = "SetAttendance" /\ c.pc = "sa_create" /\ Answers(p)
              /\ resp'.code = "OK"
              => Cardinality(PairRows(attendees', c.eid, c.actor)) = 1]_vars

\* the role values, and the type values after the default, that the
\* interface names
KnownRoles == {"", "organizer", "attendee"}
KnownTypes == {"event", "task", "both"}

\* C22 (the claim): a search of an authenticated user whose role or type is
\* outside the known values is answered 400, whatever its other parameters,
\* and never 200.
C22_RejectsUnknownEnums ==
    resp.op = "Search" /\ resp.code # "Unauthorized"
    /\ (asked.role \notin KnownRoles \/ asked.type \notin KnownTypes)
    => resp.code = "BadRequest"

\* the first store statement of the operations addressed to an event
EventLookups == {"de_find", "iu_event", "sa_event", "gea_event", "ct_event", "gt_find"}

\* C23 (the claim): the first store statement of DeleteEvent, InviteUser,
\* SetAttendance, GetEventAttendees, CreateTask and GetTasksByEvent, run for
\* an identifier that no event has, ends the call with 404 (500 when the
\* store itself reports an error) and changes no row.
C23_NotFound ==
    [][\A p \in Procs :
          LET c == calls[p]
          IN  c.pc \in EventLookups /\ calls'[p] # c /\ c.eid \notin EventIds
              => /\ Answers(p)
                 /\ Rows' = Rows
                 /\ resp'.code \in {"NotFound", "InternalServerError"}]_vars

\* C24 (the claim): a search whose endDate is an instant t returns no
\* result whose event is dated after t.
C24_InstantEndIsExact ==
    [][\A p \in Procs :
          LET c == calls[p]
              t == c.req.endDate.day * 86400 + c.req.endDate.sec
          IN  SearchAnswered(p) /\ c.req.endDate.kind = "rfc3339" =>
                \A i \in 1..Len(payload') : payload'[i].event.date <= t]_vars

====
